---- MODULE Spec2Model ----
(***************************************************************************)
(* Model of src/app.py: the agricultural yield dashboard script.           *)
(*                                                                         *)
(* A data frame is a sequence of rows; a row is a function from column     *)
(* names to cell values.  A country name (column Area) is a sequence of    *)
(* code points, so that str.strip and the lexicographic order used by      *)
(* sort_values are computed and not assumed.  A float64 cell is a record   *)
(* [kind, n, d]: an exact reduced fraction n/d, or NaN, or +/-inf.         *)
(***************************************************************************)
EXTENDS Integers, Sequences, FiniteSets, TLC

VARIABLES pc, csv, raw_df, countries, crops, years, cache,
          ave_df, ave_pivot_df, country_sec2, normalise_sec2,
          country_sec2_df, y_plot

vars == <<pc, csv, raw_df, countries, crops, years, cache,
          ave_df, ave_pivot_df, country_sec2, normalise_sec2,
          country_sec2_df, y_plot>>

---------------------------------------------------------------------------
(* Bounds and input universes *)

\* Largest number of data rows of the CSV file.
MaxRows == 2

\* Country names as code points: " " (blank), "A", "B".
Areas == {<<32>>, <<65>>, <<66>>}

Items == {"Maize", "Wheat"}

Years == {2000, 2001}

\* (hg/ha_yield, average_rain_fall_mm_per_year, pesticides_tonnes, avg_temp)
Measurements == {<<10, 100, 0, 20>>, <<0, 0, 2, 22>>}

---------------------------------------------------------------------------
(* float64 arithmetic on exact fractions *)

RECURSIVE GCD(_, _)
GCD(a, b) == IF b = 0 THEN a ELSE GCD(b, a % b)

Abs(x) == IF x < 0 THEN -x ELSE x

NaN == [kind |-> "nan", n |-> 0, d |-> 0]

Inf(sign) == [kind |-> "inf", n |-> sign, d |-> 0]

\* The finite float n/d (d # 0), in lowest terms with a positive denominator.
Rat(n, d) ==
    LET g == GCD(Abs(n), Abs(d))
        s == IF d < 0 THEN -1 ELSE 1
    IN [kind |-> "num", n |-> (s * n) \div g, d |-> (s * d) \div g]

Float(i) == Rat(i, 1)

isna(x) == x.kind = "nan"

FAdd(a, b) ==
    IF a.kind = "num" /\ b.kind = "num"
    THEN Rat(a.n * b.d + b.n * a.d, a.d * b.d)
    ELSE IF isna(a) \/ isna(b) THEN NaN
    ELSE IF a.kind = "inf" /\ b.kind = "inf" /\ a.n # b.n THEN NaN
    ELSE IF a.kind = "inf" THEN a ELSE b

FMul(a, b) ==
    IF a.kind = "num" /\ b.kind = "num"
    THEN Rat(a.n * b.n, a.d * b.d)
    ELSE IF isna(a) \/ isna(b) THEN NaN
    ELSE IF a.n = 0 \/ b.n = 0 THEN NaN
    ELSE Inf(IF (a.n < 0) = (b.n < 0) THEN 1 ELSE -1)

\* Series / Series on float64: division by zero raises nothing, it gives
\* +/-inf for a non-zero numerator and NaN for 0/0.
FDiv(a, b) ==
    IF isna(a) \/ isna(b) THEN NaN
    ELSE IF a.kind = "num" /\ b.kind = "num"
    THEN IF b.n # 0 THEN Rat(a.n * b.d, a.d * b.n)
         ELSE IF a.n = 0 THEN NaN
         ELSE Inf(IF a.n > 0 THEN 1 ELSE -1)
    ELSE IF a.kind = "inf" /\ b.kind = "inf" THEN NaN
    ELSE IF a.kind = "inf" THEN Inf(IF (a.n < 0) = (b.n < 0) THEN 1 ELSE -1)
    ELSE Float(0)

RECURSIVE FSumTo(_, _)
FSumTo(xs, k) == IF k = 0 THEN Float(0) ELSE FAdd(FSumTo(xs, k - 1), xs[k])

\* Series.sum(): NaN cells are skipped, the empty sum is 0.
Sum(xs) ==
    LET kept == SelectSeq(xs, LAMBDA x : ~isna(x))
    IN FSumTo(kept, Len(kept))

\* Series.mean(): NaN cells are skipped, the mean of nothing is NaN.
Mean(xs) ==
    LET kept == SelectSeq(xs, LAMBDA x : ~isna(x))
    IN IF Len(kept) = 0 THEN NaN
       ELSE FDiv(FSumTo(kept, Len(kept)), Float(Len(kept)))

---------------------------------------------------------------------------
(* Strings *)

IsSpace(ch) == ch \in {9, 10, 11, 12, 13, 32}

\* Number of leading whitespace characters of s.
RECURSIVE LeadingSpaces(_)
LeadingSpaces(s) ==
    IF s = << >> \/ ~IsSpace(Head(s)) THEN 0 ELSE 1 + LeadingSpaces(Tail(s))

\* Number of trailing whitespace characters of s.
RECURSIVE TrailingSpaces(_)
TrailingSpaces(s) ==
    IF s = << >> \/ ~IsSpace(s[Len(s)]) THEN 0
    ELSE 1 + TrailingSpaces(SubSeq(s, 1, Len(s) - 1))

\* str.strip(): s without its leading and trailing whitespace.
strip(s) ==
    IF LeadingSpaces(s) = Len(s) THEN << >>
    ELSE SubSeq(s, LeadingSpaces(s) + 1, Len(s) - TrailingSpaces(s))

\* astype(bool) of a string: the empty string is False.
astype_bool(s) == s # << >>

\* a < b in the order of Python strings (by code point, a proper prefix first).
RECURSIVE StrLess(_, _)
StrLess(a, b) ==
    IF b = << >> THEN FALSE
    ELSE IF a = << >> THEN TRUE
    ELSE IF Head(a) # Head(b) THEN Head(a) < Head(b)
    ELSE StrLess(Tail(a), Tail(b))

---------------------------------------------------------------------------
(* Data frames *)

\* Header of data/yield_df.csv, in file order.
CsvColumns ==
    <<"Unnamed: 0", "Area", "Item", "Year", "hg/ha_yield",
      "average_rain_fall_mm_per_year", "pesticides_tonnes", "avg_temp">>

Range(s) == {s[i] : i \in DOMAIN s}

IndexOf(s, x) == CHOOSE i \in DOMAIN s : s[i] = x

\* The k-th smallest element of a finite set of integers.
Kth(S, k) == CHOOSE i \in S : Cardinality({j \in S : j <= i}) = k

\* df[mask]: a new frame with the rows of df whose mask entry is True.
getitem(df, mask) ==
    LET kept[k \in 0..Len(df)] ==
            IF k = 0 THEN << >>
            ELSE IF mask[k] THEN Append(kept[k - 1], df[k])
            ELSE kept[k - 1]
    IN kept[Len(df)]

\* df[col]: the cells of one column.
column(df, col) == [i \in DOMAIN df |-> df[i][col]]

\* df[col] == value
eq(df, col, value) == [i \in DOMAIN df |-> df[i][col] = value]

\* dataset.rename(columns = {...})
rename(col) ==
    CASE col = "hg/ha_yield" -> "Yield (Tonnes)"
      [] col = "average_rain_fall_mm_per_year" -> "Average Rainfall (mm)"
      [] col = "pesticides_tonnes" -> "Pesticides (Tonnes)"
      [] col = "avg_temp" -> "Average Temperature (C)"
      [] OTHER -> col

\* load_data(path): the file's rows under the renamed column labels.
load_data(dataset) ==
    [i \in DOMAIN dataset |->
        [c \in {rename(o) : o \in DOMAIN dataset[i]} |->
            dataset[i][CHOOSE o \in DOMAIN dataset[i] : rename(o) = c]]]

\* df.drop(col, axis=1): a new frame without the column.
drop(df, col) ==
    [i \in DOMAIN df |-> [c \in (DOMAIN df[i]) \ {col} |-> df[i][c]]]

\* main_df.columns: the renamed header without the dropped index column.
columns ==
    LET kept == {i \in DOMAIN CsvColumns : CsvColumns[i] # "Unnamed: 0"}
    IN [k \in 1..Cardinality(kept) |-> rename(CsvColumns[Kth(kept, k)])]

\* Faulty variant: the rows are ordered by Area alone.
KeyLess_area_only(r, s) == StrLess(r["Area"], s["Area"])

\* Row order of by=['Area', 'Year'], ascending=[True, True].
KeyLess(r, s) ==
    \/ StrLess(r["Area"], s["Area"])
    \/ r["Area"] = s["Area"] /\ r["Year"] < s["Year"]

\* Faulty variant: a sort that reverses the rows with equal keys.
sort_values_unstable(df) ==
    LET insert(s, r) ==
            LET before == SelectSeq(s, LAMBDA x : KeyLess(x, r))
            IN before \o <<r>> \o SubSeq(s, Len(before) + 1, Len(s))
        sorted[k \in 0..Len(df)] ==
            IF k = 0 THEN << >> ELSE insert(sorted[k - 1], df[k])
    IN sorted[Len(df)]

\* sort_values(by=['Area', 'Year']): rows with equal keys keep their order.
sort_values(df) ==
    LET \* r goes behind every row of the sorted frame s that is not after it
        insert(s, r) ==
            LET before == SelectSeq(s, LAMBDA x : ~KeyLess(r, x))
            IN before \o <<r>> \o SubSeq(s, Len(before) + 1, Len(s))
        sorted[k \in 0..Len(df)] ==
            IF k = 0 THEN << >> ELSE insert(sorted[k - 1], df[k])
    IN sorted[Len(df)]

\* drop_duplicates() of a column: first occurrences, in order.
drop_duplicates(s) ==
    LET first == {i \in DOMAIN s : \A j \in 1..(i - 1) : s[j] # s[i]}
    IN [k \in 1..Cardinality(first) |-> s[Kth(first, k)]]

\* DataFrame.mean(axis=0): the mean of every numeric column.
mean(df) ==
    [c \in Range(columns) \ {"Area", "Item"} |->
        Mean([i \in DOMAIN df |->
                 IF c = "Year" THEN Float(df[i][c]) ELSE df[i][c]])]

\* pd.DataFrame([temp_data], columns=main_df.columns): values by position.
DataFrame(temp_data) ==
    [c \in Range(columns) |-> temp_data[IndexOf(columns, c)]]

\* df[col] = values: the frame with the column added (or replaced).
setitem(df, col, values) ==
    [i \in DOMAIN df |->
        [c \in (DOMAIN df[i]) \cup {col} |->
            IF c = col THEN values[i] ELSE df[i][c]]]

---------------------------------------------------------------------------
(* clean_average_data, lines 15-40 *)

\* The frames a call works on: df is the caller's object, main_df the
\* function's own.

\* Faulty variant: the mask is taken without str.strip().
drop_blanks_unstripped(fr) ==
    [fr EXCEPT !.main_df =
        getitem(fr.df, [i \in DOMAIN fr.df |->
                           astype_bool(fr.df[i]["Area"])])]

\* Line 17: main_df = df[df['Area'].str.strip().astype(bool)]
drop_blanks(fr) ==
    [fr EXCEPT !.main_df =
        getitem(fr.df, [i \in DOMAIN fr.df |->
                           astype_bool(strip(fr.df[i]["Area"]))])]

\* Line 18: main_df = main_df.drop('Unnamed: 0', axis=1)
drop_index_column(fr) ==
    [fr EXCEPT !.main_df = drop(fr.main_df, "Unnamed: 0")]

\* Faulty variant: the in-place sort is applied to the caller's frame.
sort_inplace_on_df(fr) ==
    [fr EXCEPT !.df = sort_values(fr.df)]

\* Line 19: main_df.sort_values(by=['Area', 'Year'], inplace=True)
sort_inplace(fr) ==
    [fr EXCEPT !.main_df = sort_values(fr.main_df)]

\* Faulty variant: the rows of the crop are not narrowed to the year.
temp_df_all_years(main_df, country, crop, year) ==
    LET country_df == getitem(main_df, eq(main_df, "Area", country))
        country_crop_df == getitem(country_df, eq(country_df, "Item", crop))
        temp_stats == mean(country_crop_df)
    IN DataFrame(<<country, crop, year,
                   temp_stats["Yield (Tonnes)"],
                   temp_stats["Average Rainfall (mm)"],
                   temp_stats["Pesticides (Tonnes)"],
                   temp_stats["Average Temperature (C)"]>>)

\* Faulty variant: the rows of the country are not narrowed to the crop.
temp_df_all_crops(main_df, country, crop, year) ==
    LET country_df == getitem(main_df, eq(main_df, "Area", country))
        country_year_df == getitem(country_df, eq(country_df, "Year", year))
        temp_stats == mean(country_year_df)
    IN DataFrame(<<country, crop, year,
                   temp_stats["Yield (Tonnes)"],
                   temp_stats["Average Rainfall (mm)"],
                   temp_stats["Pesticides (Tonnes)"],
                   temp_stats["Average Temperature (C)"]>>)

\* Lines 25-36: the one-row frame of a (country, crop, year) triple.
temp_df(main_df, country, crop, year) ==
    LET country_df == getitem(main_df, eq(main_df, "Area", country))
        country_crop_df == getitem(country_df, eq(country_df, "Item", crop))
        country_crop_year_df ==
            getitem(country_crop_df, eq(country_crop_df, "Year", year))
        temp_stats == mean(country_crop_year_df)
        temp_data == <<country, crop, year,
                       temp_stats["Yield (Tonnes)"],
                       temp_stats["Average Rainfall (mm)"],
                       temp_stats["Pesticides (Tonnes)"],
                       temp_stats["Average Temperature (C)"]>>
    IN DataFrame(temp_data)

\* Lines 21-37: the rows appended by the three nested loops, in loop order.
average_loop(main_df, countries_, crops_, years_) ==
    LET nk == Len(crops_)
        ny == Len(years_)
    IN [t \in 1..(Len(countries_) * nk * ny) |->
           temp_df(main_df,
                   countries_[((t - 1) \div (nk * ny)) + 1],
                   crops_[(((t - 1) \div ny) % nk) + 1],
                   years_[((t - 1) % ny) + 1])]

\* Faulty variant: the rows with an undefined mean yield are kept.
drop_undefined_skipped(df) == df

\* Line 38: ave_df = ave_df[ave_df['Yield (Tonnes)'].notna()]
drop_undefined(df) ==
    getitem(df, [i \in DOMAIN df |-> ~isna(df[i]["Yield (Tonnes)"])])

\* The call: what it returns (ave_df) and what it leaves in the caller's
\* frame (df).
clean_average_data(df, countries_, crops_, years_) ==
    LET fr == sort_inplace(drop_index_column(drop_blanks(
                  [df |-> df, main_df |-> << >>])))
        looped == average_loop(fr.main_df, countries_, crops_, years_)
    IN [df |-> fr.df, ave_df |-> sort_values(drop_undefined(looped))]

---------------------------------------------------------------------------
(* The script, lines 64-253 *)

\* Line 95: pd.pivot_table(ave_df, index=['Area', 'Year']).  The default
\* aggfunc is the mean; the non-numeric column Item is left out.
pivot_table(df) ==
    LET sorted == sort_values(df)
        index == drop_duplicates([i \in DOMAIN sorted |->
                                    <<sorted[i]["Area"], sorted[i]["Year"]>>])
        group(k) == getitem(df, [i \in DOMAIN df |->
                                   <<df[i]["Area"], df[i]["Year"]>> = k])
    IN [g \in DOMAIN index |->
           [c \in (Range(columns) \ {"Area", "Item", "Year"}) \cup {"index"} |->
               IF c = "index" THEN index[g]
               ELSE Mean(column(group(index[g]), c))]]

\* Lines 96-97: the index levels as columns Area and Year.
index_columns(df) ==
    setitem(setitem(df, "Area", [i \in DOMAIN df |-> df[i]["index"][1]]),
            "Year", [i \in DOMAIN df |-> df[i]["index"][2]])

\* Faulty variant: the yields are summed without grouping by year.
transform_sum_ungrouped(df) ==
    [i \in DOMAIN df |-> Sum(column(df, "Yield (Tonnes)"))]

\* groupby('Year')['Yield (Tonnes)'].transform(sum)
transform_sum(df) ==
    [i \in DOMAIN df |->
        Sum(column(getitem(df, eq(df, "Year", df[i]["Year"])),
                   "Yield (Tonnes)"))]

\* Lines 182-183: the column 'Normalised Yield (Tonnes)'.
normalised_yield(df) ==
    LET total == transform_sum(df)
    IN [i \in DOMAIN df |->
           FDiv(FMul(Float(100), df[i]["Yield (Tonnes)"]), total[i])]

\* Lines 211 and 224: df[numerator] / df[denominator]
ratio(df, numerator, denominator) ==
    [i \in DOMAIN df |-> FDiv(df[i][numerator], df[i][denominator])]

\* Line 211: the column 'Yield/ Pesticides'.
yield_per_pesticides(df) == ratio(df, "Yield (Tonnes)", "Pesticides (Tonnes)")

\* Faulty variant: line 224 divides by the pesticides column of line 211.
yield_per_rainfall_copied(df) ==
    ratio(df, "Yield (Tonnes)", "Pesticides (Tonnes)")

\* Line 224: the column 'Yield/ Rainfall'.
yield_per_rainfall(df) == ratio(df, "Yield (Tonnes)", "Average Rainfall (mm)")

\* A data row of the file: its position as the saved index column, then
\* t = <<Area, Item, Year, measurements>>.
CsvRow(i, t) ==
    [c \in Range(CsvColumns) |->
        CASE c = "Unnamed: 0" -> i - 1
          [] c = "Area" -> t[1]
          [] c = "Item" -> t[2]
          [] c = "Year" -> t[3]
          [] OTHER -> Float(t[4][IndexOf(CsvColumns, c) - 4])]

\* The files of at most MaxRows data rows.
CsvFiles(least) ==
    UNION {{[i \in 1..n |-> CsvRow(i, f[i])] :
               f \in [1..n -> Areas \X Items \X Years \X Measurements]} :
           n \in least..MaxRows}

NoCache == [load_data |-> {}, clean_average_data |-> {}]

\* The script's globals before its first statement has run.
Fresh ==
    /\ raw_df = << >>
    /\ countries = << >>
    /\ crops = << >>
    /\ years = << >>
    /\ ave_df = << >>
    /\ ave_pivot_df = << >>
    /\ country_sec2 = << >>
    /\ normalise_sec2 = FALSE
    /\ country_sec2_df = << >>
    /\ y_plot = ""

Init ==
    /\ pc = "load_data"
    /\ csv \in CsvFiles(1)
    /\ cache = NoCache
    /\ Fresh

\* Line 66: raw_df = load_data(load_path), memoised by st.cache.
LoadData ==
    /\ pc = "load_data"
    /\ \/ /\ cache.load_data = {}
          /\ raw_df' = load_data(csv)
          /\ cache' = [cache EXCEPT !.load_data =
                           {[args |-> "data/yield_df.csv", value |-> raw_df']}]
       \/ /\ \E e \in cache.load_data :
                /\ e.args = "data/yield_df.csv"
                /\ raw_df' = e.value
          /\ cache' = cache
    /\ pc' = "variable_lists"
    /\ UNCHANGED <<csv, countries, crops, years, ave_df, ave_pivot_df,
                   country_sec2, normalise_sec2, country_sec2_df, y_plot>>

\* Lines 69-71: the distinct countries, crops and years of the raw table.
VariableLists ==
    /\ pc = "variable_lists"
    /\ countries' = drop_duplicates(column(raw_df, "Area"))
    /\ crops' = drop_duplicates(column(raw_df, "Item"))
    /\ years' = drop_duplicates(column(raw_df, "Year"))
    /\ pc' = "clean_average_data"
    /\ UNCHANGED <<csv, raw_df, cache, ave_df, ave_pivot_df,
                   country_sec2, normalise_sec2, country_sec2_df, y_plot>>

\* Line 74: ave_df = clean_average_data(raw_df, countries, crops, years),
\* memoised by st.cache on the value of the arguments.
CleanAverageData ==
    /\ pc = "clean_average_data"
    /\ LET args == <<raw_df, countries, crops, years>>
       IN \/ /\ \A e \in cache.clean_average_data : e.args # args
             /\ LET r == clean_average_data(raw_df, countries, crops, years)
                IN /\ ave_df' = r.ave_df
                   /\ raw_df' = r.df
                   /\ cache' = [cache EXCEPT !.clean_average_data =
                                    @ \cup {[args |-> args, value |-> r.ave_df]}]
          \/ /\ \E e \in cache.clean_average_data :
                   /\ e.args = args
                   /\ ave_df' = e.value
             /\ UNCHANGED <<raw_df, cache>>
    /\ pc' = "section_1"
    /\ UNCHANGED <<csv, countries, crops, years, ave_pivot_df,
                   country_sec2, normalise_sec2, country_sec2_df, y_plot>>

\* Lines 94-109: the table behind 'Total crop yield per country per year.'
Section1 ==
    /\ pc = "section_1"
    /\ ave_pivot_df' = index_columns(pivot_table(ave_df))
    /\ pc' = "section_2_bar"
    /\ UNCHANGED <<csv, raw_df, countries, crops, years, cache, ave_df,
                   country_sec2, normalise_sec2, country_sec2_df, y_plot>>

\* Lines 176-202: the selected country, its rows, the normalised yield and
\* the column the bar chart plots.
Section2Bar ==
    /\ pc = "section_2_bar"
    /\ \E country \in Range(countries), normalise \in BOOLEAN :
          LET filtered == getitem(ave_df, eq(ave_df, "Area", country))
          IN /\ country_sec2' = country
             /\ normalise_sec2' = normalise
             /\ country_sec2_df' =
                    setitem(filtered, "Normalised Yield (Tonnes)",
                            normalised_yield(filtered))
             /\ y_plot' = IF normalise = FALSE THEN "Yield (Tonnes)"
                           ELSE "Normalised Yield (Tonnes)"
    /\ pc' = "section_2_lines"
    /\ UNCHANGED <<csv, raw_df, countries, crops, years, cache, ave_df,
                   ave_pivot_df>>

\* Lines 210-234: the two derived ratios behind the line charts.
Section2Lines ==
    /\ pc = "section_2_lines"
    /\ country_sec2_df' =
           LET with_pesticides ==
                   setitem(country_sec2_df, "Yield/ Pesticides",
                           yield_per_pesticides(country_sec2_df))
           IN setitem(with_pesticides, "Yield/ Rainfall",
                      yield_per_rainfall(with_pesticides))
    /\ pc' = "section_3"
    /\ UNCHANGED <<csv, raw_df, countries, crops, years, cache, ave_df,
                   ave_pivot_df, country_sec2, normalise_sec2, y_plot>>

\* Lines 247-253: the raw table is shown; the script run ends.
Section3 ==
    /\ pc = "section_3"
    /\ pc' = "done"
    /\ UNCHANGED <<csv, raw_df, countries, crops, years, cache, ave_df,
                   ave_pivot_df, country_sec2, normalise_sec2,
                   country_sec2_df, y_plot>>

\* A widget interaction: the script runs again from its first statement
\* with fresh globals; only the st.cache memo survives.
Rerun ==
    /\ pc = "done"
    /\ pc' = "load_data"
    /\ raw_df' = << >>
    /\ countries' = << >>
    /\ crops' = << >>
    /\ years' = << >>
    /\ ave_df' = << >>
    /\ ave_pivot_df' = << >>
    /\ country_sec2' = << >>
    /\ normalise_sec2' = FALSE
    /\ country_sec2_df' = << >>
    /\ y_plot' = ""
    /\ UNCHANGED <<csv, cache>>

\* A direct call clean_average_data(df, countries, crops, years) on a loaded
\* table and candidate sequences of the caller's choice.
Call ==
    /\ pc = "call"
    /\ LET r == clean_average_data(raw_df, countries, crops, years)
       IN /\ ave_df' = r.ave_df
          /\ raw_df' = r.df
          /\ cache' = [cache EXCEPT !.clean_average_data =
                          {[args |-> <<raw_df, countries, crops, years>>,
                            value |-> r.ave_df]}]
    /\ pc' = "return"
    /\ UNCHANGED <<csv, countries, crops, years, ave_pivot_df,
                   country_sec2, normalise_sec2, country_sec2_df, y_plot>>

Next ==
    \/ LoadData
    \/ VariableLists
    \/ CleanAverageData
    \/ Section1
    \/ Section2Bar
    \/ Section2Lines
    \/ Section3
    \/ Rerun

Spec == Init /\ [][Next]_vars

Reverse(s) == [i \in DOMAIN s |-> s[Len(s) + 1 - i]]

\* Candidate sequences for a table whose distinct countries, crops and
\* years are c, k and y: the table's own lists, the lists reversed, a list
\* with every value repeated, and lists led by a value that need not occur
\* in the table.
Candidates(c, k, y) ==
    {<<c, k, y>>,
     <<Reverse(c), Reverse(k), Reverse(y)>>,
     <<c \o c, k, y>>,
     <<<<(<<66>>)>> \o c, <<"Wheat">> \o k, <<2001>> \o y>>}

\* Any table of at most MaxRows rows (none included), already loaded, with
\* candidate sequences that need not be the table's own lists.
InitCall ==
    /\ pc = "call"
    /\ csv \in CsvFiles(0)
    /\ cache = NoCache
    /\ raw_df = load_data(csv)
    /\ \E cand \in Candidates(drop_duplicates(column(raw_df, "Area")),
                              drop_duplicates(column(raw_df, "Item")),
                              drop_duplicates(column(raw_df, "Year"))) :
          /\ countries = cand[1]
          /\ crops = cand[2]
          /\ years = cand[3]
    /\ ave_df = << >>
    /\ ave_pivot_df = << >>
    /\ country_sec2 = << >>
    /\ normalise_sec2 = FALSE
    /\ country_sec2_df = << >>
    /\ y_plot = ""

SpecCall == InitCall /\ [][Call]_vars

---------------------------------------------------------------------------
(* Vocabulary of the properties *)

MeasureColumns ==
    {"Yield (Tonnes)", "Average Rainfall (mm)", "Pesticides (Tonnes)",
     "Average Temperature (C)"}

\* The file's label of a column of the loaded table.
FileLabel(col) == CHOOSE o \in Range(CsvColumns) : rename(o) = col

IsBlank(s) == \A i \in DOMAIN s : IsSpace(s[i])

\* The raw rows with exactly the key (c, k, y), read off the file.
Matching(c, k, y) ==
    {j \in DOMAIN csv :
        csv[j]["Area"] = c /\ csv[j]["Item"] = k /\ csv[j]["Year"] = y}

\* The rows of frame df with the key (c, k, y).
RowsOf(df, c, k, y) ==
    {i \in DOMAIN df :
        df[i]["Area"] = c /\ df[i]["Item"] = k /\ df[i]["Year"] = y}

\* Sum of the (finite) cells of column col over the rows S of frame df,
\* as the pair <<numerator, denominator>>.
RECURSIVE Total(_, _, _)
Total(df, S, col) ==
    IF S = {} THEN <<0, 1>>
    ELSE LET j == CHOOSE j \in S : TRUE
             rest == Total(df, S \ {j}, col)
         IN <<df[j][col].n * rest[2] + rest[1] * df[j][col].d,
              df[j][col].d * rest[2]>>

\* The finite float cell x has the value num / den (den # 0).
IsFraction(x, num, den) ==
    x.kind = "num" /\ x.n * den = num * x.d

NoDuplicates(s) == \A i, j \in DOMAIN s : s[i] = s[j] => i = j

Returned == pc = "return"

---------------------------------------------------------------------------
(* Properties of clean_average_data, checked under SpecCall *)

\* C1: every returned row (c, k, y, mY, mR, mP, mT) carries, in each of its
\* four measure columns, the sum divided by the count of that column over
\* exactly the raw rows whose Area, Item and Year equal c, k and y.
MeansOverMatchingRows ==
    Returned =>
        \A i \in DOMAIN ave_df :
            LET r == ave_df[i]
                S == Matching(r["Area"], r["Item"], r["Year"])
            IN /\ S # {}
               /\ \A col \in MeasureColumns :
                      IsFraction(r[col], Total(csv, S, FileLabel(col))[1],
                                 Total(csv, S, FileLabel(col))[2] * Cardinality(S))

\* C1 witness: a returned row averages two raw rows with different yields.
MeanOfTwoRowsReturned ==
    /\ Returned
    /\ \E i \in DOMAIN ave_df :
          LET S == Matching(ave_df[i]["Area"], ave_df[i]["Item"],
                            ave_df[i]["Year"])
          IN /\ Cardinality(S) = 2
             /\ \E j, l \in S :
                    csv[j]["hg/ha_yield"] # csv[l]["hg/ha_yield"]

\* C2: a candidate triple without any matching raw row has no returned
\* row, and no returned row carries an undefined (NaN) measure.
NoRowWithoutMatch ==
    Returned =>
        /\ \A c \in Range(countries), k \in Range(crops), y \in Range(years) :
              Matching(c, k, y) = {} => RowsOf(ave_df, c, k, y) = {}
        /\ \A i \in DOMAIN ave_df, col \in MeasureColumns :
              ave_df[i][col].kind = "num"

\* C2 witness: a non-blank candidate country occurs in no raw row, other
\* candidate triples have rows, and the call returned rows.
AbsentCountryOmitted ==
    /\ Returned
    /\ ave_df # << >>
    /\ \E c \in Range(countries) :
          /\ ~IsBlank(c)
          /\ \A j \in DOMAIN csv : csv[j]["Area"] # c

\* C3: with duplicate-free candidate sequences, every triple of the cross
\* product that has a matching raw row with a non-blank country has exactly
\* one returned row, every other triple has none, and the returned rows
\* are just those.
OneRowPerTriple ==
    (Returned /\ NoDuplicates(countries) /\ NoDuplicates(crops)
              /\ NoDuplicates(years)) =>
        /\ \A c \in Range(countries), k \in Range(crops), y \in Range(years) :
              Cardinality(RowsOf(ave_df, c, k, y)) =
                  IF Matching(c, k, y) # {} /\ ~IsBlank(c) THEN 1 ELSE 0
        /\ \A i \in DOMAIN ave_df :
              /\ ave_df[i]["Area"] \in Range(countries)
              /\ ave_df[i]["Item"] \in Range(crops)
              /\ ave_df[i]["Year"] \in Range(years)

\* C3 witness: duplicate-free candidates, and two raw rows with one key
\* that were collapsed into the single returned row.
DuplicateKeyCollapsed ==
    /\ Returned
    /\ NoDuplicates(countries) /\ NoDuplicates(crops) /\ NoDuplicates(years)
    /\ Len(ave_df) = 1
    /\ Cardinality(Matching(ave_df[1]["Area"], ave_df[1]["Item"],
                            ave_df[1]["Year"])) = 2

\* C4: no returned row has an empty or whitespace-only Area, and the means
\* of a returned row are taken over non-blank raw rows only.
BlankCountriesDiscarded ==
    Returned =>
        \A i \in DOMAIN ave_df :
            LET r == ave_df[i]
                S == {j \in Matching(r["Area"], r["Item"], r["Year"]) :
                         ~IsBlank(csv[j]["Area"])}
            IN /\ ~IsBlank(r["Area"])
               /\ \A col \in MeasureColumns :
                      IsFraction(r[col], Total(csv, S, FileLabel(col))[1],
                                 Total(csv, S, FileLabel(col))[2] * Cardinality(S))

\* C4 witness: the table has a blank-country row, the blank value is a
\* candidate country, and the call returned a row.
BlankCandidateSkipped ==
    /\ Returned
    /\ ave_df # << >>
    /\ \E j \in DOMAIN csv :
          IsBlank(csv[j]["Area"]) /\ csv[j]["Area"] \in Range(countries)

\* C5: the returned rows are in ascending (Area, Year) order: of two
\* consecutive rows the first has the smaller Area, or the same Area and a
\* Year that is not larger.
SortedByCountryYear ==
    Returned =>
        \A i \in 1..(Len(ave_df) - 1) :
            \/ StrLess(ave_df[i]["Area"], ave_df[i + 1]["Area"])
            \/ /\ ave_df[i]["Area"] = ave_df[i + 1]["Area"]
               /\ ave_df[i]["Year"] <= ave_df[i + 1]["Year"]

\* C5 witness: the loops visited a later returned row first, by country
\* or by year.
LoopOrderDiffers ==
    /\ Returned
    /\ NoDuplicates(countries) /\ NoDuplicates(years)
    /\ \E i, j \in DOMAIN ave_df :
          /\ i < j
          /\ \/ IndexOf(countries, ave_df[i]["Area"])
                   > IndexOf(countries, ave_df[j]["Area"])
             \/ /\ ave_df[i]["Area"] = ave_df[j]["Area"]
                /\ IndexOf(years, ave_df[i]["Year"])
                      > IndexOf(years, ave_df[j]["Year"])

---------------------------------------------------------------------------
(* Properties of the script, checked under Spec *)

Averaged ==
    pc \in {"section_1", "section_2_bar", "section_2_lines", "section_3", "done"}

Pivoted == pc \in {"section_2_bar", "section_2_lines", "section_3", "done"}

BarDrawn == pc \in {"section_2_lines", "section_3", "done"}

LinesDrawn == pc \in {"section_3", "done"}

\* The rows of frame df with the country and year of (c, y).
RowsOfYear(df, c, y) ==
    {j \in DOMAIN df : df[j]["Area"] = c /\ df[j]["Year"] = y}

\* Rows that tie on (Area, Year) stand in the order in which their crops
\* are iterated.
TiesInCropOrder ==
    Averaged =>
        \A i, j \in DOMAIN ave_df :
            (/\ i < j
             /\ ave_df[i]["Area"] = ave_df[j]["Area"]
             /\ ave_df[i]["Year"] = ave_df[j]["Year"])
            => IndexOf(crops, ave_df[i]["Item"])
                 < IndexOf(crops, ave_df[j]["Item"])

InputsUnchanged ==
    [][pc = "clean_average_data" =>
          /\ raw_df' = raw_df
          /\ countries' = countries
          /\ crops' = crops
          /\ years' = years]_vars

\* C7 witness: the call has returned rows for a raw table that still has
\* its index column, a blank-country row and rows out of (Area, Year) order.
UnsortedTableKept ==
    /\ pc = "section_1"
    /\ ave_df # << >>
    /\ \E i \in DOMAIN raw_df :
          /\ IsBlank(raw_df[i]["Area"])
          /\ "Unnamed: 0" \in DOMAIN raw_df[i]
    /\ \E i \in 1..(Len(raw_df) - 1) : KeyLess(raw_df[i + 1], raw_df[i])

\* C8: in a year of the selected country whose total yield is not zero,
\* the normalised yield of a row is 100 times its mean yield divided by the
\* sum of the mean yields of the aggregated rows of that country and year,
\* and the normalised yields of the year sum to 100.
NormalisedYieldIsShare ==
    BarDrawn =>
        \A i \in DOMAIN country_sec2_df :
            LET r == country_sec2_df[i]
                t == Total(ave_df, RowsOfYear(ave_df, country_sec2, r["Year"]),
                           "Yield (Tonnes)")
                n == Total(country_sec2_df,
                           RowsOfYear(country_sec2_df, country_sec2, r["Year"]),
                           "Normalised Yield (Tonnes)")
            IN t[1] # 0 =>
                 /\ IsFraction(r["Normalised Yield (Tonnes)"],
                               100 * r["Yield (Tonnes)"].n * t[2],
                               r["Yield (Tonnes)"].d * t[1])
                 /\ n[1] = 100 * n[2]

\* C8 witness: the selected country has two crops with a non-zero yield in
\* one year.
YearSharedByTwoCrops ==
    /\ BarDrawn
    /\ \E i, j \in DOMAIN country_sec2_df :
          /\ i # j
          /\ country_sec2_df[i]["Year"] = country_sec2_df[j]["Year"]
          /\ country_sec2_df[i]["Yield (Tonnes)"].n # 0
          /\ country_sec2_df[j]["Yield (Tonnes)"].n # 0

\* The ratio x of a row is numer / denom as float64 division gives it,
\* where undefined(numer) says what a zero divisor yields.
RatioIs(x, numer, denom, undefined(_)) ==
    IF denom.n = 0 THEN x = undefined(numer)
    ELSE IsFraction(x, numer.n * denom.d, numer.d * denom.n)

\* All rows' ratios, for both derived columns.
RatiosAre(undefined(_)) ==
    LinesDrawn =>
        \A i \in DOMAIN country_sec2_df :
            LET r == country_sec2_df[i]
            IN /\ RatioIs(r["Yield/ Pesticides"], r["Yield (Tonnes)"],
                          r["Pesticides (Tonnes)"], undefined)
               /\ RatioIs(r["Yield/ Rainfall"], r["Yield (Tonnes)"],
                          r["Average Rainfall (mm)"], undefined)

AlwaysNaN(numer) == NaN

InfOrNaN(numer) ==
    IF numer.n = 0 THEN NaN ELSE Inf(IF numer.n > 0 THEN 1 ELSE -1)

\* C9 as stated: a row whose divisor (mean pesticides, mean rainfall) is
\* zero has the undefined value as its ratio; every other row has its
\* yield divided by the divisor.
UndefinedOnZeroDivisor == RatiosAre(AlwaysNaN)

\* C9 amended: a row whose divisor is zero has a non-finite ratio, infinite
\* for a non-zero mean yield and undefined (NaN) for a zero mean yield;
\* every other row has its yield divided by the divisor.
NonFiniteOnZeroDivisor == RatiosAre(InfOrNaN)

\* C9 witness: the line charts have a row with a yield and zero pesticides
\* next to a row with non-zero pesticides.
ZeroDivisorPlotted ==
    /\ LinesDrawn
    /\ \E i, j \in DOMAIN country_sec2_df :
          /\ country_sec2_df[i]["Pesticides (Tonnes)"].n = 0
          /\ country_sec2_df[i]["Yield (Tonnes)"].n # 0
          /\ country_sec2_df[i]["Yield/ Pesticides"].kind = "inf"
          /\ country_sec2_df[j]["Pesticides (Tonnes)"].n # 0

\* C10: ave_pivot_df has exactly one entry per (country, year) pair of the
\* aggregated rows, and its yield is the sum over the crops of the mean
\* yields of that country and year.
PivotHoldsTotalYield ==
    Pivoted =>
        /\ \A j \in DOMAIN ave_df :
              Cardinality(RowsOfYear(ave_pivot_df, ave_df[j]["Area"],
                                     ave_df[j]["Year"])) = 1
        /\ \A g \in DOMAIN ave_pivot_df :
              LET p == ave_pivot_df[g]
                  S == RowsOfYear(ave_df, p["Area"], p["Year"])
                  t == Total(ave_df, S, "Yield (Tonnes)")
              IN S # {} /\ IsFraction(p["Yield (Tonnes)"], t[1], t[2])

====
